---------------------------- MODULE Spec2Model ----------------------------
(***************************************************************************)
(* Avatar motion controller and collision system of my-metaverse.          *)
(*                                                                         *)
(* Numbers are fixed point with three decimals: a length, a speed, an      *)
(* angle (radians) or a time (seconds) x of the source is the integer      *)
(* 1000 * x.  deltaTime is carried as deltaTime * 60 (frames), also x1000, *)
(* because the source only ever uses it in the product deltaTime * 60.     *)
(***************************************************************************)
EXTENDS Integers, Sequences, FiniteSets, TLC

(***************************************************************************)
(* Fixed-point arithmetic                                                  *)
(***************************************************************************)
Abs(a) == IF a < 0 THEN -a ELSE a

Sign(a) == IF a > 0 THEN 1 ELSE IF a < 0 THEN -1 ELSE 0

Min(a, b) == IF a < b THEN a ELSE b

Max(a, b) == IF a > b THEN a ELSE b

\* integer division truncating toward zero
Div(a, b) == IF a >= 0 THEN a \div b ELSE -((-a) \div b)

\* product of two fixed-point numbers
Mul(a, b) == Div(a * b, 1000)

RECURSIVE SqrtSearch(_, _, _)
SqrtSearch(n, lo, hi) ==
  IF lo >= hi THEN lo
  ELSE LET mid == (lo + hi + 1) \div 2
       IN IF mid * mid <= n THEN SqrtSearch(n, mid, hi)
                            ELSE SqrtSearch(n, lo, mid - 1)

\* floor of the square root
ISqrt(n) == SqrtSearch(n, 0, Min(n, 46340))

(***************************************************************************)
(* THREE.Vector3                                                           *)
(***************************************************************************)
Vec(a, b, c) == [x |-> a, y |-> b, z |-> c]

Zero3 == Vec(0, 0, 0)

VAdd(u, v) == Vec(u.x + v.x, u.y + v.y, u.z + v.z)

VSub(u, v) == Vec(u.x - v.x, u.y - v.y, u.z - v.z)

\* Vector3.multiplyScalar
VScale(u, s) == Vec(Mul(u.x, s), Mul(u.y, s), Mul(u.z, s))

\* Vector3.dot
VDot(u, v) == Div(u.x * v.x + u.y * v.y + u.z * v.z, 1000)

\* Vector3.lengthSq, in units of 1e-6
LengthSq(u) == u.x * u.x + u.y * u.y + u.z * u.z

\* Vector3.length
Length(u) == ISqrt(LengthSq(u))

\* Vector3.normalize: divideScalar(length() || 1)
Normalize(u) ==
  LET len == Length(u)
  IN IF len = 0 THEN u
     ELSE Vec(Div(u.x * 1000, len), Div(u.y * 1000, len), Div(u.z * 1000, len))

Clamp(a, lo, hi) == Max(lo, Min(hi, a))

\* Vector3.clamp / Box3.clampPoint
ClampPoint(p, box) ==
  Vec(Clamp(p.x, box.min.x, box.max.x),
      Clamp(p.y, box.min.y, box.max.y),
      Clamp(p.z, box.min.z, box.max.z))

\* Box3.intersectsSphere
IntersectsSphere(box, center, radius) ==
  LengthSq(VSub(ClampPoint(center, box), center)) <= radius * radius

\* Box3.containsPoint
ContainsPoint(box, p) ==
  /\ box.min.x <= p.x /\ p.x <= box.max.x
  /\ box.min.y <= p.y /\ p.y <= box.max.y
  /\ box.min.z <= p.z /\ p.z <= box.max.z


(***************************************************************************)
(* Scene objects.  A mesh is known by its identity; its isTerrain tag and  *)
(* its world bounding box (Box3.setFromObject) are fixed once the scene is *)
(* built.  "ground" is the plane of Scene.addGround, "building" a box      *)
(* standing on the ground as createBuilding makes them, "treetop" a box    *)
(* hanging above the ground as the cone of createTree, "trunk" the trunk   *)
(* of a tree that the random placement has put beside the building.        *)
(***************************************************************************)
Meshes == {"ground", "building", "treetop", "trunk"}

\* (object as any).isTerrain, set by Scene.addGround only
TerrainTag(o) == o = "ground"

\* new THREE.Box3().setFromObject(object)
BoundingBox(o) ==
  CASE o = "ground"   -> [min |-> Vec(-25000, -500, -25000), max |-> Vec(25000, -500, 25000)]
    [] o = "building" -> [min |-> Vec(-1000, -500, 600),     max |-> Vec(1000, 2500, 2600)]
    [] o = "treetop"  -> [min |-> Vec(-1000, 750, -2600),    max |-> Vec(1000, 2750, -600)]
    [] o = "trunk"    -> [min |-> Vec(400, -500, -300),      max |-> Vec(1000, 1000, 300)]

(***************************************************************************)
(* CollisionSystem                                                         *)
(***************************************************************************)
avatarRadius == 500

pushBackDistance == 200

bounceStrength == 800

\* velocity.lengthSq() < 0.0001, lengthSq being in units of 1e-6
VelocityEpsSq == 100

CollisionResponses == {"stop", "slide", "bounce"}

\* CollisionSystem.isTerrain
IsTerrainMutant(o) == FALSE

isTerrain(o) == TerrainTag(o) = TRUE

\* the registry after addObject(o)
AddObjectResult(objs, o) == IF isTerrain(o) THEN objs ELSE Append(objs, o)

\* Array.indexOf: the first index holding o, 0 when there is none
IndexOf(objs, o) ==
  IF \E i \in 1..Len(objs) : objs[i] = o
  THEN CHOOSE i \in 1..Len(objs) : objs[i] = o /\ \A j \in 1..(i - 1) : objs[j] # o
  ELSE 0

\* Array.splice(index, 1)
Splice(objs, index) ==
  [i \in 1..(Len(objs) - 1) |-> IF i < index THEN objs[i] ELSE objs[i + 1]]

\* the registry after removeObject(o)
RemoveObjectResult(objs, o) ==
  IF IndexOf(objs, o) # 0 THEN Splice(objs, IndexOf(objs, o)) ELSE objs

\* the point the collision response measures from:
\* new THREE.Vector3() clamped to the box, i.e. the box point nearest the origin
ClosestPoint(box, position) == ClampPoint(Zero3, box)

\* slideAlongSurface: the position after the slide (velocity is left alone)
SlideAlongSurface(position, velocity, normal) ==
  LET dot == VDot(velocity, normal)
      slideDirection == VSub(velocity, VScale(normal, dot))
  IN IF dot < 0 /\ LengthSq(slideDirection) > VelocityEpsSq
     THEN VAdd(position, VScale(Normalize(slideDirection), Div(Length(velocity), 2)))
     ELSE position

\* the inside branch: the avatar centre coincides with the closest point
InsideResponse(acc, closestPoint, velocity) ==
  LET pushDirection == IF LengthSq(velocity) > VelocityEpsSq
                       THEN Normalize(velocity) ELSE Vec(1000, 0, 0)
  IN [position |-> VAdd(closestPoint, VScale(pushDirection, avatarRadius + pushBackDistance)),
      velocity |-> VScale(velocity, -bounceStrength),
      collisionDetected |-> TRUE]

\* the overlap branch; direction.multiplyScalar works in place, so the
\* vector used as the surface normal afterwards is the adjustment itself
OverlapResponse(acc, direction, distance, velocity, response) ==
  LET overlap == avatarRadius - distance
      adjustment == VScale(Normalize(direction), overlap + pushBackDistance)
      pushed == VAdd(acc.position, adjustment)
      normalComponent == VDot(velocity, adjustment)
  IN IF overlap > 0
     THEN CASE response = "stop" ->
                 [position |-> pushed,
                  velocity |-> IF normalComponent < 0
                               THEN VSub(acc.velocity, VScale(adjustment, normalComponent))
                               ELSE acc.velocity,
                  collisionDetected |-> TRUE]
            [] response = "slide" ->
                 [position |-> SlideAlongSurface(pushed, acc.velocity, adjustment),
                  velocity |-> acc.velocity,
                  collisionDetected |-> TRUE]
            [] response = "bounce" ->
                 [position |-> pushed,
                  velocity |-> IF normalComponent < 0
                               THEN VScale(VSub(acc.velocity,
                                                VScale(adjustment, 2 * normalComponent)),
                                           bounceStrength)
                               ELSE acc.velocity,
                  collisionDetected |-> TRUE]
     ELSE [acc EXCEPT !.collisionDetected = TRUE]

\* (mutant) the loop body testing the avatar centre instead of its sphere
CollideWithMutant(acc, o, position, velocity, response) ==
  LET boundingBox == BoundingBox(o)
      closestPoint == ClosestPoint(boundingBox, position)
      direction == VSub(position, closestPoint)
  IN IF isTerrain(o) THEN acc
     ELSE IF ~ContainsPoint(boundingBox, position) THEN acc
     ELSE IF LengthSq(direction) < 1
          THEN InsideResponse(acc, closestPoint, velocity)
          ELSE OverlapResponse(acc, direction, Length(direction), velocity, response)

\* one pass of the loop body of checkCollision for one registered object
CollideWith(acc, o, position, velocity, response) ==
  LET boundingBox == BoundingBox(o)
      closestPoint == ClosestPoint(boundingBox, position)
      direction == VSub(position, closestPoint)
  IN IF isTerrain(o) THEN acc
     ELSE IF ~IntersectsSphere(boundingBox, position, avatarRadius) THEN acc
     ELSE IF LengthSq(direction) < 1
          THEN InsideResponse(acc, closestPoint, velocity)
          ELSE OverlapResponse(acc, direction, Length(direction), velocity, response)

RECURSIVE CollideAll(_, _, _, _, _, _)
CollideAll(acc, objs, i, position, velocity, response) ==
  IF i > Len(objs) THEN acc
  ELSE CollideAll(CollideWith(acc, objs[i], position, velocity, response),
                  objs, i + 1, position, velocity, response)

\* the early-out of checkCollision
EarlyOutMutant(velocity) == LengthSq(velocity) = 0

EarlyOut(velocity) == LengthSq(velocity) < VelocityEpsSq

\* CollisionSystem.checkCollision
CheckCollision(objs, response, position, velocity) ==
  LET start == [position |-> position, velocity |-> velocity, collisionDetected |-> FALSE]
  IN IF EarlyOut(velocity) THEN start
     ELSE CollideAll(start, objs, 1, position, velocity, response)

(***************************************************************************)
(* Avatar: the two classes of core/Avatar.ts.  variant = "model" is the    *)
(* GLTF-driven class (no collision system), variant = "collision" the      *)
(* class that owns a CollisionSystem and the bump state.                   *)
(***************************************************************************)
Variants == {"model", "collision"}

moveSpeed == 100

sprintSpeed == 200

jumpHeight == 1500

jumpDuration == 500

acceleration == 50

deceleration == 30

bumpDuration == 300

controlsDisabledDuration == 300

animationChangeCooldown == 500

movementTimeout == 200

\* the 0.01 rad below which the facing is left alone
RotationEps == 10

\* velocity.lengthSq() > 0.01 of the animation selection, in units of 1e-6
WalkingSpeedSq == 10000

\* the factor of bumpVelocity.copy(velocity).multiplyScalar(-1.5)
BumpFactor == -1500

\* Math.PI
PI == 3142

rotationSpeed(v) == IF v = "model" THEN 30 ELSE 50

groundY(v) == IF v = "model" THEN 0 ELSE 1000

\* a key snapshot is the set of the keys whose entry is true
Pressed(keys, k) == k \in keys

MovementKeyHeld(keys) ==
  Pressed(keys, "w") \/ Pressed(keys, "a") \/ Pressed(keys, "s") \/ Pressed(keys, "d")

\* keys["Shift"] && (keys["w"] || keys["W"])
Sprinting(keys) == Pressed(keys, "Shift") /\ (Pressed(keys, "w") \/ Pressed(keys, "W"))

\* keys[" "] || keys["Space"] (the model class reads keys[" "] only)
JumpKeyHeld(v, keys) ==
  IF v = "model" THEN Pressed(keys, " ")
  ELSE Pressed(keys, " ") \/ Pressed(keys, "Space")

\* forward: the camera direction projected on the ground plane, normalized
Forward(cam) == Normalize(Vec(cam.x, 0, cam.z))

\* right: new Vector3(forward.z, 0, -forward.x).normalize()
Right(cam) == Normalize(Vec(Forward(cam).z, 0, -Forward(cam).x))

\* Math.atan2(forward.x, forward.z) on the unit vectors the camera
\* directions of the model give
Atan2(x, z) ==
  CASE x = 0 /\ z > 0 -> 0
    [] x = 0 /\ z < 0 -> PI
    [] x > 0 /\ z = 0 -> 1571
    [] x < 0 /\ z = 0 -> -1571
    [] x = 600 /\ z = 800 -> 644
    [] x = -600 /\ z = 800 -> -644
    [] x = 20 /\ z = 1000 -> 20

\* the two while loops that bring the difference into [-PI, PI]
RECURSIVE NormalizeDiff(_)
NormalizeDiff(d) ==
  IF d > PI THEN NormalizeDiff(d - 2 * PI)
  ELSE IF d < -PI THEN NormalizeDiff(d + 2 * PI)
  ELSE d

\* rotationStep; the model class caps it by the remaining difference
RotationStep(v, normalizedDiff, deltaTime) ==
  IF v = "model"
  THEN Sign(normalizedDiff) * Min(Abs(normalizedDiff), Mul(rotationSpeed(v), deltaTime))
  ELSE Sign(normalizedDiff) * Mul(rotationSpeed(v), deltaTime)

\* currentRotation after the facing smoothing
Rotate(v, current, target, deltaTime) ==
  LET normalizedDiff == NormalizeDiff(target - current)
  IN IF Abs(normalizedDiff) > RotationEps
     THEN current + RotationStep(v, normalizedDiff, deltaTime)
     ELSE current

TargetSpeed(keys) ==
  IF MovementKeyHeld(keys)
  THEN (IF Sprinting(keys) THEN sprintSpeed ELSE moveSpeed)
  ELSE 0

\* (mutant) the easing without the clamp at the target
EaseSpeedMutant(speed, targetSpeed, deltaTime) ==
  IF speed < targetSpeed THEN speed + Mul(acceleration, deltaTime)
  ELSE IF speed > targetSpeed THEN speed - Mul(deceleration, deltaTime)
  ELSE speed

\* currentSpeed after the easing toward targetSpeed
EaseSpeed(speed, targetSpeed, deltaTime) ==
  IF speed < targetSpeed
  THEN Min(speed + Mul(acceleration, deltaTime), targetSpeed)
  ELSE IF speed > targetSpeed
       THEN Max(speed - Mul(deceleration, deltaTime), targetSpeed)
       ELSE speed

\* velocity assembled from the movement keys; forward.multiplyScalar and
\* right.multiplyScalar scale the vector in place, so "s" scales what "w"
\* left behind, and "d" what "a" left behind
AssembleVelocity(keys, forward, right, speed) ==
  LET f1 == IF Pressed(keys, "w") THEN VScale(forward, speed) ELSE forward
      v1 == IF Pressed(keys, "w") THEN f1 ELSE Zero3
      f2 == IF Pressed(keys, "s") THEN VScale(f1, -speed) ELSE f1
      v2 == IF Pressed(keys, "s") THEN VAdd(v1, f2) ELSE v1
      r1 == IF Pressed(keys, "a") THEN VScale(right, speed) ELSE right
      v3 == IF Pressed(keys, "a") THEN VAdd(v2, r1) ELSE v2
      r2 == IF Pressed(keys, "d") THEN VScale(r1, -speed) ELSE r1
      v4 == IF Pressed(keys, "d") THEN VAdd(v3, r2) ELSE v3
  IN v4

\* (mutant) the curve fed with the elapsed seconds instead of the progress
JumpYMutant(elapsed) == Mul(-4 * jumpHeight, Mul(elapsed, elapsed) - elapsed)

\* jumpY = -4 * jumpHeight * (t * t - t) with t = elapsed / jumpDuration
JumpY(elapsed) ==
  LET t == Div(elapsed * 1000, jumpDuration)
  IN Mul(-4 * jumpHeight, Mul(t, t) - t)

(***************************************************************************)
(* KeyboardControls                                                        *)
(*                                                                         *)
(* The key map is an object indexed by event.key; an entry is undefined    *)
(* until an event has written it.                                          *)
(***************************************************************************)
\* the values of event.key the model sends
KeyNames == {"w", "W", "a", "A", "Shift", " "}

\* KeyboardControls.movementKeys, as far as KeyNames goes
movementKeys == {"w", "W", "a", "A"}

\* String.toLowerCase on a movement key
ToLowerCase(key) ==
  CASE key = "W" -> "w"
    [] key = "A" -> "a"
    [] OTHER -> key

\* String.toUpperCase on a movement key
ToUpperCase(key) ==
  CASE key = "w" -> "W"
    [] key = "a" -> "A"
    [] OTHER -> key

\* keys = {}
NoKeys == [k \in KeyNames |-> "undefined"]

\* KeyboardControls.onKeyDown; the Shift and Control branches write the
\* entry of event.key as the last branch does
OnKeyDown(map, key) ==
  IF key \in movementKeys
  THEN [map EXCEPT ![ToLowerCase(key)] = "true", ![ToUpperCase(key)] = "false"]
  ELSE [map EXCEPT ![key] = "true"]

\* (mutant) keyup that clears the entry of event.key only
OnKeyUpMutant(map, key) == [map EXCEPT ![key] = "false"]

\* KeyboardControls.onKeyUp
OnKeyUp(map, key) ==
  IF key \in movementKeys
  THEN [map EXCEPT ![ToLowerCase(key)] = "false", ![ToUpperCase(key)] = "false"]
  ELSE [map EXCEPT ![key] = "false"]

\* (mutant) blur that resets the movement keys only
OnBlurMutant(map) ==
  [k \in KeyNames |-> IF k \in movementKeys THEN "undefined" ELSE map[k]]

\* KeyboardControls.onBlur
OnBlur(map) == NoKeys

\* KeyboardControls.getKeys, as the set of the keys whose entry is true
GetKeys(map) == {k \in KeyNames : map[k] = "true"}

\* the events the constructor registers a listener for
WindowEvents == {"keydown", "keyup", "blur"}

\* Function.prototype.bind returns a new function object at every call, so
\* a function bound in one method is never the one bound in another
SameListener(boundIn, passedFrom) == boundIn = passedFrom

\* window.removeEventListener: detaches the listener when handed the very
\* function that was registered, and does nothing otherwise
RemoveEventListener(attached, event, passedFrom) ==
  IF SameListener("constructor", passedFrom) THEN attached \ {event} ELSE attached

\* the listeners still attached after cleanup
CleanupResult(attached) ==
  RemoveEventListener(
    RemoveEventListener(
      RemoveEventListener(attached, "keydown", "cleanup"), "keyup", "cleanup"),
    "blur", "cleanup")

(***************************************************************************)
(* Scene: the pointer-lock camera.  Angles are in units of 1e-3 rad.  The  *)
(* camera position and orientation that updateCamera derives from         *)
(* cameraRotation reach the avatar as the camera direction passed to       *)
(* update.                                                                 *)
(***************************************************************************)
sensitivity == 2

cameraRotationSpeed == 50

Zero2 == [x |-> 0, y |-> 0]

\* Math.PI * 0.4
MaxPitch == Div(PI * 4, 10)

\* Math.abs(m) > 0.0001, which is below the unit 1e-3
Moved(m) == Abs(m) * 10 > 1

\* the mousemove listener: the movement of the event replaces what is stored
OnMouseMove(locked, stored, movementX, movementY) ==
  IF locked THEN [x |-> movementX * sensitivity, y |-> movementY * sensitivity]
  ELSE stored

\* cameraRotation after updateCamera
RotateCamera(locked, rotation, moved) ==
  IF locked
  THEN [y |-> IF Moved(moved.x)
              THEN rotation.y - Mul(moved.x, cameraRotationSpeed * 20)
              ELSE rotation.y,
        x |-> IF Moved(moved.y)
              THEN Clamp(rotation.x - Mul(moved.y, cameraRotationSpeed * 20),
                         -MaxPitch, MaxPitch)
              ELSE rotation.x]
  ELSE rotation

(***************************************************************************)
(* State                                                                   *)
(***************************************************************************)
VARIABLES
  objects,                    \* CollisionSystem.objects, in registration order
  collisionResponse,          \* CollisionSystem.collisionResponse
  variant,                    \* which Avatar class is running
  position,                   \* mesh.position
  velocity,
  isJumping,
  jumpStartTime,
  targetRotation,
  currentRotation,
  isSprinting,
  isCrouching,
  currentSpeed,
  isBumping,
  bumpStartTime,
  bumpVelocity,
  controlsDisabled,
  controlsDisabledStartTime,
  modelLoaded,                \* model class: the GLTF model has arrived
  animations,                 \* model class: names of the loaded clips
  currentAnimation,
  lastAnimationChange,
  lastMovementTime,
  now,                        \* performance.now() / 1000
  keyMap,                     \* KeyboardControls.keys
  listeners,                  \* the window events KeyboardControls listens to
  isPointerLocked,            \* Scene.isPointerLocked
  mouseMovement,              \* Scene.mouseMovement
  cameraRotation,             \* Scene.cameraRotation (x: pitch, y: yaw)
  call                        \* the last operation, its inputs and what it did

collisionVars == <<objects, collisionResponse>>

avatarVars ==
  <<position, velocity, isJumping, jumpStartTime, targetRotation, currentRotation,
    isSprinting, isCrouching, currentSpeed, isBumping, bumpStartTime, bumpVelocity,
    controlsDisabled, controlsDisabledStartTime>>

animationVars ==
  <<modelLoaded, animations, currentAnimation, lastAnimationChange, lastMovementTime>>

sceneVars == <<isPointerLocked, mouseMovement, cameraRotation>>

vars ==
  <<collisionVars, variant, avatarVars, animationVars, now, keyMap, listeners,
    sceneVars, call>>

NoCall == [op |-> "none", outcome |-> "returned",
           keys |-> {}, cam |-> Zero3, deltaTime |-> 0, t |-> 0,
           bumping |-> FALSE, jumping |-> FALSE, pending |-> 0, object |-> "none",
           newPosition |-> Zero3, incoming |-> Zero3,
           result |-> [position |-> Zero3, velocity |-> Zero3, collisionDetected |-> FALSE]]

\* the state after the constructors have run, with the registry holding objs
InitState(v, objs) ==
  /\ objects = objs
  /\ collisionResponse = "bounce"
  /\ variant = v
  /\ position = Vec(0, groundY(v), 0)
  /\ velocity = Zero3
  /\ isJumping = FALSE
  /\ jumpStartTime = 0
  /\ targetRotation = 0
  /\ currentRotation = 0
  /\ isSprinting = FALSE
  /\ isCrouching = FALSE
  /\ currentSpeed = 0
  /\ isBumping = FALSE
  /\ bumpStartTime = 0
  /\ bumpVelocity = Zero3
  /\ controlsDisabled = FALSE
  /\ controlsDisabledStartTime = 0
  /\ modelLoaded = FALSE
  /\ animations = {}
  /\ currentAnimation = "Idle"
  /\ lastAnimationChange = 0
  /\ lastMovementTime = 0
  /\ now = 0
  /\ keyMap = NoKeys
  /\ listeners = WindowEvents
  /\ isPointerLocked = FALSE
  /\ mouseMovement = Zero2
  /\ cameraRotation = Zero2
  /\ call = NoCall

(***************************************************************************)
(* Avatar.update                                                           *)
(*                                                                         *)
(* keys is the snapshot, deltaTime the frame time (x60), cam the camera's  *)
(* world direction.  performance.now() is read several times in one call   *)
(* and time may pass between the reads.  t is its value at the first read. *)
(* Collision class: g1 passes between the controls-disabled check and the  *)
(* bump check (the jump stamp is taken then too); when a bump starts, g2   *)
(* passes between the stamping of bumpStartTime and the stamping of        *)
(* controlsDisabledStartTime; the jump block reads the clock last.         *)
(* Model class: g1 passes between the jump stamp and the jump block.       *)
(***************************************************************************)
EmptyResult == [position |-> Zero3, velocity |-> Zero3, collisionDetected |-> FALSE]

CallRecord(op) ==
  [op |-> op, outcome |-> "returned",
   keys |-> {}, cam |-> Zero3, deltaTime |-> 0, t |-> 0,
   bumping |-> FALSE, jumping |-> FALSE, pending |-> 0, object |-> "none",
   newPosition |-> Zero3, incoming |-> Zero3, result |-> EmptyResult]

\* (mutant) the lock-out lifted after half its duration
ControlsLockedHalfMutant(t) ==
  controlsDisabled
    /\ (2 * (t - controlsDisabledStartTime) < controlsDisabledDuration)

\* (mutant) the lock-out tied to the bump instead of to its own timer
ControlsLockedMutant(t) == controlsDisabled /\ isBumping

\* the controls-disabled gate: TRUE when the lock-out is still running
ControlsLocked(t) ==
  controlsDisabled /\ (t - controlsDisabledStartTime < controlsDisabledDuration)

\* the bump check: TRUE when a bump is running and its time is not up
BumpRunning(t) == isBumping /\ (t - bumpStartTime < bumpDuration)

\* (mutant) the bump branch forgets to copy the bump velocity
VelocityAfterBumpCheckMutant(t, assembled) == IF isBumping THEN velocity ELSE assembled

\* velocity at the end of the bump check / movement block
VelocityAfterBumpCheck(t, assembled) ==
  IF isBumping
  THEN (IF BumpRunning(t) THEN bumpVelocity ELSE velocity)
  ELSE assembled

\* bump start condition of the collision class
StartsBump(collided, bumping, locked) == collided /\ ~bumping /\ ~locked

\* jump trigger of the collision class
StartsJump(v, k, jumping, locked) == JumpKeyHeld(v, k) /\ ~jumping /\ ~locked

\* (mutant) a bump cutting the jump short
JumpBlockGroundedMutant(v, jumping, start, t) ==
  IF jumping /\ ~isBumping
  THEN (IF t - start < jumpDuration
        THEN [y |-> groundY(v) + JumpY(t - start), isJumping |-> TRUE]
        ELSE [y |-> groundY(v), isJumping |-> FALSE])
  ELSE [y |-> groundY(v), isJumping |-> FALSE]

\* (mutant) the jump still on at the call made exactly jumpDuration after
\* its start
JumpBlockMutant(v, jumping, start, t) ==
  IF jumping
  THEN (IF t - start <= jumpDuration
        THEN [y |-> groundY(v) + JumpY(t - start), isJumping |-> TRUE]
        ELSE [y |-> groundY(v), isJumping |-> FALSE])
  ELSE [y |-> groundY(v), isJumping |-> FALSE]

\* mesh.position.y after the jump block, and whether the jump goes on
JumpBlock(v, jumping, start, t) ==
  IF jumping
  THEN (IF t - start < jumpDuration
        THEN [y |-> groundY(v) + JumpY(t - start), isJumping |-> TRUE]
        ELSE [y |-> groundY(v), isJumping |-> FALSE])
  ELSE [y |-> groundY(v), isJumping |-> FALSE]

\* the movement block shared by the classes: facing, speed, velocity
Movement(v, k, deltaTime, cam, target, rotation, speed) ==
  LET forward == Forward(cam)
      target1 == IF MovementKeyHeld(k) THEN Atan2(forward.x, forward.z) ELSE target
      speed1 == EaseSpeed(speed, TargetSpeed(k), deltaTime)
  IN [targetRotation |-> target1,
      currentRotation |-> Rotate(v, rotation, target1, deltaTime),
      currentSpeed |-> speed1,
      velocity |-> AssembleVelocity(k, forward, Right(cam), speed1)]

\* what the movement block leaves when it is skipped (a bump is on)
NoMovement == [targetRotation |-> targetRotation, currentRotation |-> currentRotation,
               currentSpeed |-> currentSpeed, velocity |-> Zero3]

\* the collision class has no try/catch: outcome is "returned" for a call that
\* runs to its end, "threw" for one whose last statement, updateDustParticles,
\* raises an exception, which then leaves update
UpdateCollisionStep(keys, deltaTime, cam, t, g1, g2, outcome) ==
  /\ variant = "collision"
  /\ \E locked \in {ControlsLocked(t)}, running \in {BumpRunning(t + g1)} :
     \E k \in {IF locked THEN {} ELSE keys} :
     \E m \in {IF isBumping THEN NoMovement
               ELSE Movement(variant, k, deltaTime, cam,
                             targetRotation, currentRotation, currentSpeed)} :
     \E velocity1 \in {VelocityAfterBumpCheck(t + g1, m.velocity)} :
     \E jumps \in {StartsJump(variant, k, isJumping, locked)} :
     \E result \in {CheckCollision(objects, collisionResponse,
                                   VAdd(position, velocity1), velocity1)} :
     \E bumps \in {StartsBump(result.collisionDetected, running, locked)} :
     \E tEnd \in {IF bumps THEN t + g1 + g2 ELSE t + g1} :
     \E jump \in {JumpBlock(variant, isJumping \/ jumps,
                            IF jumps THEN t + g1 ELSE jumpStartTime, tEnd)} :
       /\ controlsDisabled' = (locked \/ bumps)
       /\ controlsDisabledStartTime' =
            IF bumps THEN tEnd ELSE controlsDisabledStartTime
       /\ isBumping' = (running \/ bumps)
       /\ bumpStartTime' = IF bumps THEN t + g1 ELSE bumpStartTime
       /\ bumpVelocity' = IF bumps THEN VScale(velocity1, BumpFactor)
                          ELSE IF isBumping /\ ~running THEN Zero3
                          ELSE bumpVelocity
       /\ isSprinting' = IF isBumping THEN isSprinting ELSE Sprinting(k)
       /\ isCrouching' = IF isBumping THEN isCrouching ELSE Pressed(k, "Control")
       /\ targetRotation' = m.targetRotation
       /\ currentRotation' = m.currentRotation
       /\ currentSpeed' = m.currentSpeed
       /\ velocity' = IF running \/ bumps THEN velocity1 ELSE result.velocity
       /\ position' = [result.position EXCEPT !.y = jump.y]
       /\ isJumping' = jump.isJumping
       /\ jumpStartTime' = IF jumps THEN t + g1 ELSE jumpStartTime
       /\ now' = tEnd
       /\ call' = [CallRecord("update") EXCEPT
                     !.keys = keys, !.cam = cam, !.deltaTime = deltaTime, !.t = t,
                     !.incoming = velocity1,
                     !.newPosition = VAdd(position, velocity1),
                     !.result = result, !.outcome = outcome,
                     !.bumping = running, !.jumping = isJumping]
       /\ UNCHANGED <<variant, animationVars, keyMap, listeners, sceneVars>>

\* update leaves the registry and the collision response alone
UpdateCollisionTo(keys, deltaTime, cam, t, g1, g2, outcome) ==
  /\ UpdateCollisionStep(keys, deltaTime, cam, t, g1, g2, outcome)
  /\ UNCHANGED collisionVars

\* Avatar.update of the collision class, run to its end
UpdateCollision(keys, deltaTime, cam, t, g1, g2) ==
  UpdateCollisionTo(keys, deltaTime, cam, t, g1, g2, "returned")

\* Avatar.update of the collision class when camera.getWorldDirection raises
\* an exception: the timer checks and the velocity reset have run
UpdateCollisionThrowsAtCamera(keys, deltaTime, cam, t) ==
  /\ variant = "collision"
  /\ ~isBumping
  /\ controlsDisabled' = ControlsLocked(t)
  /\ velocity' = Zero3
  /\ now' = t
  /\ call' = [CallRecord("update") EXCEPT
                !.keys = keys, !.cam = cam, !.deltaTime = deltaTime, !.t = t, !.outcome = "threw"]
  /\ UNCHANGED <<collisionVars, variant, animationVars, keyMap, listeners,
                 sceneVars, position, isJumping,
                 jumpStartTime, targetRotation, currentRotation, isSprinting,
                 isCrouching, currentSpeed, isBumping, bumpStartTime, bumpVelocity,
                 controlsDisabledStartTime>>

\* the animation the model class wants to show
TargetAnimation(jumping, v, sinceMovement) ==
  IF jumping THEN "Walking"
  ELSE IF LengthSq(v) > WalkingSpeedSq THEN "Walking"
  ELSE IF sinceMovement < movementTimeout THEN "Walking"
  ELSE "Idle"

\* the body of update of the model class sits in a try block whose catch
\* logs and returns: outcome is "returned" for a call that runs to its end,
\* "caught" for one in which the shadow update that closes the jump block
\* raises an exception, so that the position update after it is skipped
UpdateModelTo(keys, deltaTime, cam, t, g1, g2, outcome) ==
  /\ variant = "model"
  /\ \E m \in {Movement(variant, keys, deltaTime, cam,
                        targetRotation, currentRotation, currentSpeed)} :
     \E lastMovement1 \in {IF MovementKeyHeld(keys) THEN t ELSE lastMovementTime} :
     \E wanted \in {TargetAnimation(isJumping, m.velocity, t - lastMovement1)} :
     \E switches \in {/\ modelLoaded /\ animations # {}
                      /\ wanted # currentAnimation
                      /\ t - lastAnimationChange > animationChangeCooldown
                      /\ wanted \in animations} :
     \E jumps \in {StartsJump(variant, keys, isJumping, FALSE)} :
     \E jump \in {JumpBlock(variant, isJumping \/ jumps,
                            IF jumps THEN t ELSE jumpStartTime, t + g1)} :
       /\ isSprinting' = Sprinting(keys)
       /\ isCrouching' = Pressed(keys, "Control")
       /\ targetRotation' = m.targetRotation
       /\ lastMovementTime' = lastMovement1
       /\ currentRotation' = m.currentRotation
       /\ currentSpeed' = m.currentSpeed
       /\ velocity' = m.velocity
       /\ currentAnimation' = IF switches THEN wanted ELSE currentAnimation
       /\ lastAnimationChange' = IF switches THEN t ELSE lastAnimationChange
       /\ isJumping' = jump.isJumping
       /\ jumpStartTime' = IF jumps THEN t ELSE jumpStartTime
       /\ position' = IF outcome = "returned"
                      THEN Vec(position.x + m.velocity.x, jump.y,
                               position.z + m.velocity.z)
                      ELSE [position EXCEPT !.y = jump.y]
       /\ now' = t + g1
       /\ call' = [CallRecord("update") EXCEPT
                     !.keys = keys, !.cam = cam, !.deltaTime = deltaTime, !.t = t,
                     !.incoming = m.velocity, !.outcome = outcome,
                     !.jumping = isJumping]
       /\ UNCHANGED <<collisionVars, variant, modelLoaded, animations, keyMap,
                      listeners, sceneVars,
                      isBumping, bumpStartTime, bumpVelocity,
                      controlsDisabled, controlsDisabledStartTime>>

\* Avatar.update of the model class, run to its end
UpdateModel(keys, deltaTime, cam, t, g1, g2) ==
  UpdateModelTo(keys, deltaTime, cam, t, g1, g2, "returned")

\* Avatar.update of the model class when camera.getWorldDirection raises an
\* exception: the velocity reset has run, the catch logs and returns
UpdateModelThrowsAtCamera(keys, deltaTime, cam, t) ==
  /\ variant = "model"
  /\ velocity' = Zero3
  /\ now' = t
  /\ call' = [CallRecord("update") EXCEPT
                !.keys = keys, !.cam = cam, !.deltaTime = deltaTime, !.t = t, !.outcome = "caught"]
  /\ UNCHANGED <<collisionVars, variant, animationVars, keyMap, listeners,
                 sceneVars, position, isJumping,
                 jumpStartTime, targetRotation, currentRotation, isSprinting,
                 isCrouching, currentSpeed, isBumping, bumpStartTime, bumpVelocity,
                 controlsDisabled, controlsDisabledStartTime>>

\* Avatar.update in which a call into three.js raises an exception, early
\* (camera.getWorldDirection) or late (the shadow of the model class, the
\* dust particles of the collision class)
UpdateThrows(keys, deltaTime, cam, t, g1, g2) ==
  \/ UpdateCollisionThrowsAtCamera(keys, deltaTime, cam, t)
  \/ UpdateCollisionTo(keys, deltaTime, cam, t, g1, g2, "threw")
  \/ UpdateModelThrowsAtCamera(keys, deltaTime, cam, t)
  \/ UpdateModelTo(keys, deltaTime, cam, t, g1, g2, "caught")

\* Avatar.update of whichever class is running
Update(keys, deltaTime, cam, t, g1, g2) ==
  \/ UpdateCollision(keys, deltaTime, cam, t, g1, g2)
  \/ UpdateModel(keys, deltaTime, cam, t, g1, g2)

(***************************************************************************)
(* The other operations                                                    *)
(***************************************************************************)
\* bounds of the model
MaxObjects == 2

MaxTime == 600

ArenaSize == 600

MaxTurn == 4000

InArena(p) == Abs(p.x) <= ArenaSize /\ Abs(p.z) <= ArenaSize

\* CollisionSystem.addObject (Avatar.addCollidableObject)
AddObject(o) ==
  /\ Len(objects) < MaxObjects
  /\ objects' = AddObjectResult(objects, o)
  /\ call' = [CallRecord("addObject") EXCEPT !.object = o]
  /\ UNCHANGED <<collisionResponse, variant, avatarVars, animationVars, now,
                 keyMap, listeners, sceneVars>>

\* CollisionSystem.removeObject (Avatar.removeCollidableObject)
RemoveObject(o) ==
  /\ objects' = RemoveObjectResult(objects, o)
  /\ call' = [CallRecord("removeObject") EXCEPT !.object = o]
  /\ UNCHANGED <<collisionResponse, variant, avatarVars, animationVars, now,
                 keyMap, listeners, sceneVars>>

\* CollisionSystem.setCollisionResponse
SetCollisionResponse(response) ==
  /\ collisionResponse' = response
  /\ call' = CallRecord("setCollisionResponse")
  /\ UNCHANGED <<objects, variant, avatarVars, animationVars, now, keyMap,
                 listeners, sceneVars>>

\* CollisionSystem.checkCollision called on its own
Query(p, v) ==
  /\ call' = [CallRecord("checkCollision") EXCEPT
                !.newPosition = p, !.incoming = v,
                !.result = CheckCollision(objects, collisionResponse, p, v)]
  /\ UNCHANGED <<collisionVars, variant, avatarVars, animationVars, now, keyMap,
                 listeners, sceneVars>>

\* the completion callback of loadGLTFModel, for a file holding the clips
LoadModel(clips) ==
  /\ variant = "model"
  /\ ~modelLoaded
  /\ modelLoaded' = TRUE
  /\ animations' = {clips[i] : i \in 1..Len(clips)}
  /\ currentAnimation' = IF Len(clips) = 0 \/ "Idle" \in animations' THEN "Idle"
                         ELSE clips[1]
  /\ call' = [CallRecord("loadModel") EXCEPT !.t = now, !.object = currentAnimation]
  /\ UNCHANGED <<collisionVars, variant, avatarVars, lastAnimationChange,
                 keyMap, listeners, sceneVars,
                 lastMovementTime, now>>

\* a keydown event dispatched to the window
KeyDown(key) ==
  /\ keyMap' = IF "keydown" \in listeners THEN OnKeyDown(keyMap, key) ELSE keyMap
  /\ call' = [CallRecord("keydown") EXCEPT !.object = key, !.keys = GetKeys(keyMap)]
  /\ UNCHANGED <<collisionVars, variant, avatarVars, animationVars, now,
                 listeners, sceneVars>>

\* a keyup event dispatched to the window
KeyUp(key) ==
  /\ keyMap' = IF "keyup" \in listeners THEN OnKeyUp(keyMap, key) ELSE keyMap
  /\ call' = [CallRecord("keyup") EXCEPT !.object = key, !.keys = GetKeys(keyMap)]
  /\ UNCHANGED <<collisionVars, variant, avatarVars, animationVars, now,
                 listeners, sceneVars>>

\* the window losing focus
Blur ==
  /\ keyMap' = IF "blur" \in listeners THEN OnBlur(keyMap) ELSE keyMap
  /\ call' = [CallRecord("blur") EXCEPT !.keys = GetKeys(keyMap)]
  /\ UNCHANGED <<collisionVars, variant, avatarVars, animationVars, now,
                 listeners, sceneVars>>

\* KeyboardControls.cleanup, called by onBeforeUnmount
Cleanup ==
  /\ listeners' = CleanupResult(listeners)
  /\ call' = [CallRecord("cleanup") EXCEPT !.keys = GetKeys(keyMap)]
  /\ UNCHANGED <<collisionVars, variant, avatarVars, animationVars, now, keyMap,
                 sceneVars>>

\* bounds of the camera model
MaxYaw == 1000

MaxPending == 3

\* the pointerlockchange listener
PointerLockChange(locked) ==
  /\ isPointerLocked' = locked
  /\ call' = CallRecord("pointerlockchange")
  /\ UNCHANGED <<collisionVars, variant, avatarVars, animationVars, now, keyMap,
                 listeners, mouseMovement, cameraRotation>>

\* the movements of the mousemove events that reached a locked pointer since
\* the last other operation, summed
PendingMovement == IF call.op = "mousemove" THEN call.incoming ELSE Zero3

\* a mousemove event; the call record keeps the sum of the movements
MouseMove(movementX, movementY) ==
  /\ call.pending < MaxPending
  /\ mouseMovement' = OnMouseMove(isPointerLocked, mouseMovement, movementX, movementY)
  /\ call' = [CallRecord("mousemove") EXCEPT
                !.pending = call.pending + 1,
                !.incoming =
                   IF isPointerLocked
                   THEN VAdd(PendingMovement,
                             Vec(movementX * sensitivity, movementY * sensitivity, 0))
                   ELSE PendingMovement]
  /\ UNCHANGED <<collisionVars, variant, avatarVars, animationVars, now, keyMap,
                 listeners, isPointerLocked, cameraRotation>>

\* Scene.updateCamera
UpdateCamera ==
  /\ cameraRotation' = RotateCamera(isPointerLocked, cameraRotation, mouseMovement)
  /\ mouseMovement' = IF isPointerLocked THEN Zero2 ELSE mouseMovement
  /\ Abs(cameraRotation'.y) <= MaxYaw
  /\ call' = [CallRecord("updateCamera") EXCEPT !.incoming = PendingMovement]
  /\ UNCHANGED <<collisionVars, variant, avatarVars, animationVars, now, keyMap,
                 listeners, isPointerLocked>>

\* one frame of the avatar, with the inputs drawn from the given sets
Frame(KeySets, DeltaTimes, Cameras, Advances, Gaps1, Gaps2) ==
  \E keys \in KeySets, deltaTime \in DeltaTimes, cam \in Cameras,
     adv \in Advances, g1 \in Gaps1, g2 \in Gaps2 :
       /\ now + adv + g1 + g2 <= MaxTime
       /\ Update(keys, deltaTime, cam, now + adv, g1, g2)
       /\ InArena(position')
       /\ Abs(currentRotation') <= MaxTurn

\* one frame in which update raises an exception
FaultyFrame(KeySets, DeltaTimes, Cameras, Advances, Gaps1, Gaps2) ==
  \E keys \in KeySets, deltaTime \in DeltaTimes, cam \in Cameras,
     adv \in Advances, g1 \in Gaps1, g2 \in Gaps2 :
       /\ now + adv + g1 + g2 <= MaxTime
       /\ UpdateThrows(keys, deltaTime, cam, now + adv, g1, g2)
       /\ InArena(position')
       /\ Abs(currentRotation') <= MaxTurn

\* what Scene.addEnvironmentObjects returns
EnvObjects == <<"building", "treetop">>

\* the registry after addCollidableObject on each of objs[i..] in turn
RECURSIVE AddAll(_, _, _)
AddAll(registry, objs, i) ==
  IF i > Len(objs) THEN registry
  ELSE AddAll(AddObjectResult(registry, objs[i]), objs, i + 1)

\* the registry grows without limit in the source; the model stops there
MaxRegistry == 8

\* one pass of animate of the App that owns a collision system: deltaTime
\* is the time since the last frame, the keys are what KeyboardControls
\* holds, and after update every environment object is added to the avatar
AppFrame(Cameras, Advances) ==
  \E cam \in Cameras, adv \in Advances :
     /\ now + adv <= MaxTime
     /\ Len(objects) + Len(EnvObjects) <= MaxRegistry
     /\ UpdateCollisionStep(GetKeys(keyMap), 60 * adv, cam, now + adv, 0, 0, "returned")
     /\ objects' = AddAll(objects, EnvObjects, 1)
     /\ collisionResponse' = collisionResponse
     /\ InArena(position')

(***************************************************************************)
(* Spec: the collision class walking among registered objects.             *)
(***************************************************************************)
BumpKeys == {{}, {"w"}, {"s"}, {"w", " "}}

BumpDeltaTimes == {4000}

BumpCameras == {Vec(0, -600, 800)}

BumpAdvances == {0, 100}

BumpGaps1 == {0}

BumpGaps2 == {0, 100}

\* the registry as Scene.registerCollidableObjects leaves it
SceneObjects == <<"building", "treetop">>

Init == InitState("collision", SceneObjects)

Next ==
  \/ Frame(BumpKeys, BumpDeltaTimes, BumpCameras, BumpAdvances, BumpGaps1, BumpGaps2)

Spec == Init /\ [][Next]_vars

(***************************************************************************)
(* JumpSpec: either class jumping among the registered objects (the model  *)
(* class has no collision system and walks through them).                  *)
(***************************************************************************)
JumpSpec == (\E v \in Variants : InitState(v, SceneObjects)) /\ [][Next]_vars

(***************************************************************************)
(* CollisionSpec: the collision system on its own.  The registry is built  *)
(* and torn down by addObject / removeObject, and checkCollision is called *)
(* with positions and velocities drawn from the sets below.                *)
(***************************************************************************)
QueryPositions ==
  {Vec(0, 5000, 0),        \* far from every box
   Vec(0, 1000, 300),      \* sphere touches the building, centre outside
   Vec(0, 1000, 1000),     \* centre inside the building
   Vec(0, 0, 600),         \* on the building, at its point nearest the origin
   Vec(0, 0, 200),         \* 0.4 in front of that point
   Vec(240, 0, 280),       \* 0.4 from that point, off the axis
   Vec(200, 0, 300),       \* sphere overlaps the building and the trunk
   Vec(0, 1000, -200),     \* sphere overlaps the treetop from above its edge
   Vec(0, 750, -600),      \* on the treetop, at its point nearest the origin
   Vec(0, 1500, -1000)}    \* centre inside the treetop

QueryVelocities ==
  {Zero3, Vec(5, 0, 0), Vec(7, 0, 7), Vec(0, 0, 10),
   Vec(0, 0, 100), Vec(0, 0, -100), Vec(60, 0, 80), Vec(-100, 0, 0)}

CollisionInit == InitState("collision", <<>>)

CollisionNext ==
  \/ \E o \in Meshes : AddObject(o)
  \/ \E o \in Meshes : RemoveObject(o)
  \/ \E response \in CollisionResponses : SetCollisionResponse(response)
  \/ \E p \in QueryPositions, v \in QueryVelocities : Query(p, v)

CollisionSpec == CollisionInit /\ [][CollisionNext]_vars

(***************************************************************************)
(* MotionSpec: either class walking, sprinting and jumping in the open     *)
(* (nothing registered), one update per frame.                             *)
(***************************************************************************)
MotionKeys == {{}, {"w"}, {"Shift", "w"}, {" "}}

MotionDeltaTimes == {0, 2000}

MotionCameras == {Vec(0, -600, 800)}

MotionAdvances == {50}

NoGap == {0}

MotionInit == \E v \in Variants : InitState(v, <<>>)

MotionNext ==
  Frame(MotionKeys, MotionDeltaTimes, MotionCameras, MotionAdvances, NoGap, NoGap)

MotionSpec == MotionInit /\ [][MotionNext]_vars

(***************************************************************************)
(* TurnSpec: the avatar turning on the spot.  A first frame with "w" held  *)
(* sets targetRotation from the camera; every later frame has no key held  *)
(* and the deltaTime of the first, so the target stays where it is.  The   *)
(* clock plays no part in the facing smoothing and is left where it is, so *)
(* that a run can go on for any number of frames.                          *)
(***************************************************************************)
TurnDeltaTimes == {500, 1000, 2000}

TurnCameras == {Vec(600, 0, 800), Vec(-600, 0, 800), Vec(20, 0, 1000)}

Still == {0}

Tap ==
  /\ call.op = "none"
  /\ Frame({{"w"}}, TurnDeltaTimes, TurnCameras, Still, NoGap, NoGap)

Turn ==
  /\ call.op = "update"
  /\ Frame({{}}, {call.deltaTime}, MotionCameras, Still, NoGap, NoGap)

TurnNext == Tap \/ Turn

TurnSpec == MotionInit /\ [][TurnNext]_vars

\* requestAnimationFrame keeps calling update
TurnFairSpec == TurnSpec /\ WF_vars(TurnNext)

(***************************************************************************)
(* LockSpec: the collision class easing its speed among the registered     *)
(* objects, bumping into them and being locked out.                        *)
(***************************************************************************)
LockKeys == {{}, {"w"}, {"Shift", "w"}}

LockDeltaTimes == {0, 1000, 3000}

LockAdvances == {100}

LockGaps2 == {0, 200}

LockNext ==
  Frame(LockKeys, LockDeltaTimes, BumpCameras, LockAdvances, NoGap, LockGaps2)

LockSpec == Init /\ [][LockNext]_vars

(***************************************************************************)
(* KeyboardSpec: key and focus events reaching KeyboardControls.           *)
(***************************************************************************)
KeyboardNext ==
  \/ \E key \in KeyNames : KeyDown(key)
  \/ \E key \in KeyNames : KeyUp(key)
  \/ Blur
  \/ Cleanup

KeyboardSpec == CollisionInit /\ [][KeyboardNext]_vars

(***************************************************************************)
(* CameraSpec: pointer-lock changes and mouse movements reaching the Scene *)
(* between calls of updateCamera.                                          *)
(***************************************************************************)
MouseMovements == {<<100, 0>>, <<-100, 0>>, <<0, 300>>, <<150, -300>>}

CameraNext ==
  \/ \E locked \in BOOLEAN : PointerLockChange(locked)
  \/ \E m \in MouseMovements : MouseMove(m[1], m[2])
  \/ UpdateCamera

CameraSpec == CollisionInit /\ [][CameraNext]_vars

(***************************************************************************)
(* FaultSpec: either class in the open, with frames in which a call that   *)
(* update makes into three.js raises an exception.                         *)
(***************************************************************************)
FaultKeys == {{}, {"w"}, {" "}}

FaultDeltaTimes == {2000}

FaultAdvances == {100}

\* animate asks for the next frame after update has returned, so an
\* exception that leaves update ends the frame loop
LoopRunning == call.outcome # "threw"

FaultNext ==
  \/ /\ LoopRunning
     /\ Frame(FaultKeys, FaultDeltaTimes, MotionCameras, FaultAdvances, NoGap, NoGap)
  \/ /\ LoopRunning
     /\ FaultyFrame(FaultKeys, FaultDeltaTimes, MotionCameras, FaultAdvances,
                    NoGap, NoGap)

FaultSpec == MotionInit /\ [][FaultNext]_vars

(***************************************************************************)
(* AppSpec: the App that owns a collision system, after init has built the *)
(* scene and registered its objects: key events and animation frames.      *)
(***************************************************************************)
AppKeyEvents == {"w", " "}

AppAdvances == {100}

AppNext ==
  \/ \E key \in AppKeyEvents : KeyDown(key)
  \/ \E key \in AppKeyEvents : KeyUp(key)
  \/ AppFrame(BumpCameras, AppAdvances)

AppSpec == Init /\ [][AppNext]_vars

(***************************************************************************)
(* SteerSpec: either class in the open with several movement keys held at  *)
(* once.                                                                   *)
(***************************************************************************)
SteerKeys == {{}, {"w"}, {"w", "s"}, {"a", "d"}}

SteerDeltaTimes == {2000}

SteerAdvances == {100}

SteerNext ==
  Frame(SteerKeys, SteerDeltaTimes, MotionCameras, SteerAdvances, NoGap, NoGap)

SteerSpec == MotionInit /\ [][SteerNext]_vars

(***************************************************************************)
(* AnimSpec: the model class, whose model file arrives at some point of    *)
(* the run, with or without a clip named "Idle".                           *)
(***************************************************************************)
AnimClips == {<<"Idle", "Walking">>, <<"Run", "Walking">>}

AnimKeys == {{}, {"w"}}

AnimNext ==
  \/ \E clips \in AnimClips : LoadModel(clips)
  \/ Frame(AnimKeys, SteerDeltaTimes, MotionCameras, SteerAdvances, NoGap, NoGap)

AnimSpec == InitState("model", <<>>) /\ [][AnimNext]_vars

(***************************************************************************)
(* Properties of the bump state machine (checked under Spec)               *)
(***************************************************************************)
UpdateStep == call'.op = "update"

\* this step started a bump
BumpStartedStep == isBumping' /\ (~isBumping \/ bumpStartTime' # bumpStartTime)

\* C1: once an update call with incoming velocity v starts a bump, the
\* stored bump velocity is -1.5 v, and every later update call made before
\* bumpDuration has elapsed ends with isBumping = TRUE and with the avatar
\* velocity equal to that same stored bump velocity, whether or not the
\* call saw a further collision.
C1_BumpVelocityHeld ==
  [][UpdateStep =>
       /\ BumpStartedStep =>
            /\ bumpVelocity'.x = Div(-3 * call'.incoming.x, 2)
            /\ bumpVelocity'.y = Div(-3 * call'.incoming.y, 2)
            /\ bumpVelocity'.z = Div(-3 * call'.incoming.z, 2)
       /\ (isBumping /\ now' - bumpStartTime < bumpDuration) =>
            /\ isBumping'
            /\ bumpVelocity' = bumpVelocity
            /\ velocity' = bumpVelocity]_vars

\* a later call of a running bump has returned, after a further collision,
\* with the velocity equal to the stored non-zero bump velocity
C1_Witness ==
  /\ call.op = "update"
  /\ isBumping
  /\ now > bumpStartTime
  /\ now - bumpStartTime < bumpDuration
  /\ bumpVelocity # Zero3
  /\ velocity = bumpVelocity
  /\ call.result.collisionDetected

\* C2: on the first update call at which now - bumpStartTime >= bumpDuration
\* the bump flag is cleared, the velocity is zero when the call returns and
\* the call does not move the avatar.
C2_ExpiryStopsAvatar ==
  [][(UpdateStep /\ isBumping /\ now' - bumpStartTime >= bumpDuration) =>
       /\ ~isBumping'
       /\ velocity' = Zero3
       /\ position'.x = position.x
       /\ position'.z = position.z]_vars

\* C3: from the call that starts a bump, every later update call made before
\* controlsDisabledDuration has elapsed treats the key snapshot as empty
\* (target facing kept, target speed 0, no key in the velocity, no jump
\* started), and the first call at or after that duration lifts the
\* lock-out, whether or not the bump has ended.
C3_ControlsLockedOut ==
  [][(UpdateStep /\ controlsDisabled) =>
       IF call'.t - controlsDisabledStartTime < controlsDisabledDuration
       THEN /\ controlsDisabled'
            /\ controlsDisabledStartTime' = controlsDisabledStartTime
            /\ targetRotation' = targetRotation
            /\ currentSpeed' <= currentSpeed
            /\ (~isBumping => call'.incoming = Zero3)
            /\ (isBumping => call'.incoming \in {bumpVelocity, velocity})
            /\ (~isJumping => ~isJumping')
            /\ jumpStartTime' = jumpStartTime
       ELSE controlsDisabled' => controlsDisabledStartTime' >= call'.t]_vars

\* keys were held in a call made while the lock-out ran after the bump had
\* ended, and nothing came of them
C3_Witness ==
  /\ call.op = "update"
  /\ {"w", " "} \subseteq call.keys
  /\ controlsDisabled
  /\ ~isBumping
  /\ ~call.result.collisionDetected
  /\ now - controlsDisabledStartTime < controlsDisabledDuration
  /\ call.incoming = Zero3
  /\ velocity = Zero3
  /\ ~isJumping

(***************************************************************************)
(* Properties of the collision system (checked under CollisionSpec)        *)
(***************************************************************************)
\* the registered objects that checkCollision tests
Tested == {objects[i] : i \in 1..Len(objects)} \ {o \in Meshes : TerrainTag(o)}

\* squared distance from p to the box
DistanceSqToBox(box, p) == LengthSq(VSub(p, ClampPoint(p, box)))

\* C4: whatever the position and the registry, a velocity whose squared
\* length is below 1e-4 makes checkCollision return the position and the
\* velocity it was given and collisionDetected = FALSE.
C4_EarlyOut ==
  (call.op = "checkCollision" /\ LengthSq(call.incoming) < VelocityEpsSq) =>
     /\ call.result.position = call.newPosition
     /\ call.result.velocity = call.incoming
     /\ ~call.result.collisionDetected

\* a slow, non-zero velocity at a position whose sphere cuts a registered box
C4_Witness ==
  /\ call.op = "checkCollision"
  /\ call.incoming # Zero3
  /\ LengthSq(call.incoming) < VelocityEpsSq
  /\ \E o \in Tested : IntersectsSphere(BoundingBox(o), call.newPosition, avatarRadius)
  /\ call.result.position = call.newPosition
  /\ ~call.result.collisionDetected

\* C5: when the desired position lies inside a registered box and the
\* velocity is above the early-out threshold, the returned position is at
\* least avatarRadius away from that box, and checkCollision on the returned
\* position adjusts nothing more.
C5_PushedOutOfBox ==
  (call.op = "checkCollision" /\ ~(LengthSq(call.incoming) < VelocityEpsSq)) =>
     \A o \in Tested :
        ContainsPoint(BoundingBox(o), call.newPosition) =>
          /\ DistanceSqToBox(BoundingBox(o), call.result.position)
               >= avatarRadius * avatarRadius
          /\ CheckCollision(objects, collisionResponse,
                            call.result.position, call.incoming).position
               = call.result.position

\* C6: the registry never holds an object tagged as terrain.
C6_NoTerrainRegistered ==
  \A i \in 1..Len(objects) : ~TerrainTag(objects[i])

\* the ground has just been passed to addObject of a registry that holds
\* other objects, and it is not in it
C6_Witness ==
  /\ call.op = "addObject"
  /\ TerrainTag(call.object)
  /\ Len(objects) > 0
  /\ \A i \in 1..Len(objects) : objects[i] # call.object

(***************************************************************************)
(* Properties of the facing smoothing (checked under TurnSpec)             *)
(***************************************************************************)
\* the wrapped signed difference between the target and a facing
FacingDiff(target, rotation) == NormalizeDiff(target - rotation)

\* C7: in either class one update call never turns the avatar past its
\* target: the wrapped difference between targetRotation and currentRotation
\* keeps its sign over the call and does not grow in magnitude.
C7_NoOvershoot ==
  [][UpdateStep =>
       /\ FacingDiff(targetRotation', currentRotation)
            * FacingDiff(targetRotation', currentRotation') >= 0
       /\ Abs(FacingDiff(targetRotation', currentRotation'))
            <= Abs(FacingDiff(targetRotation', currentRotation))]_vars

\* C8: in either class, with the target and a positive deltaTime held fixed
\* and update called again and again, the facing ends up within 0.01 rad of
\* the target and stays there.
C8_FacingConverges ==
  <>[](Abs(FacingDiff(targetRotation, currentRotation)) <= RotationEps)

(***************************************************************************)
(* Properties of the speed easing (checked under LockSpec)                 *)
(***************************************************************************)
MaxSpeed == Max(moveSpeed, sprintSpeed)

\* currentSpeed stays in range and moves toward target without passing it
EasesToward(target) ==
  /\ currentSpeed' >= 0
  /\ currentSpeed' <= MaxSpeed
  /\ Abs(target - currentSpeed') <= Abs(target - currentSpeed)
  /\ (currentSpeed <= target => currentSpeed' <= target)
  /\ (currentSpeed >= target => currentSpeed' >= target)

\* C9 as stated: after every update call currentSpeed lies in
\* [0, max(moveSpeed, sprintSpeed)] and is no farther than before from the
\* target speed of the key snapshot passed to the call (0 with no movement
\* key, sprintSpeed with Shift+w, moveSpeed otherwise), without passing it.
C9_SpeedTowardSnapshotTarget ==
  [][UpdateStep => EasesToward(TargetSpeed(call'.keys))]_vars

\* the snapshot an update call acts on: the empty one while the controls
\* are disabled, the one passed to it otherwise
ActedOn(keys, t) ==
  IF controlsDisabled /\ t - controlsDisabledStartTime < controlsDisabledDuration
  THEN {}
  ELSE keys

\* C9 (amended): after every update call currentSpeed lies in
\* [0, max(moveSpeed, sprintSpeed)] and is no farther than before from the
\* target speed of the snapshot the call acts on, without passing it.
C9_SpeedTowardActedOnTarget ==
  [][UpdateStep => EasesToward(TargetSpeed(ActedOn(call'.keys, call'.t)))]_vars

\* an update that was passed "w" while the controls were disabled and no
\* bump was running, and slowed the avatar down part of the way to 0
C9_Witness ==
  /\ call.op = "update"
  /\ Pressed(call.keys, "w")
  /\ call.deltaTime > 0
  /\ controlsDisabled
  /\ call.t - controlsDisabledStartTime < controlsDisabledDuration
  /\ ~isBumping
  /\ call.incoming = Zero3
  /\ currentSpeed > 0
  /\ currentSpeed < moveSpeed

KeyDownStep == call'.op = "keydown"

KeyUpStep == call'.op = "keyup"

\* no entry of the key map is true
NoneHeld == GetKeys(keyMap) = {}

SphereReaches(box, p) == DistanceSqToBox(box, p) <= avatarRadius * avatarRadius

\* C13: for a velocity above the early-out threshold, collisionDetected is
\* true exactly when the avatar sphere at the desired position intersects
\* the bounding box of some registered shape that is not terrain.
C13_DetectedIffIntersects ==
  (call.op = "checkCollision" /\ ~(LengthSq(call.incoming) < VelocityEpsSq)) =>
     (call.result.collisionDetected
        <=> \E o \in Tested : SphereReaches(BoundingBox(o), call.newPosition))

\* the sphere touches a box with its centre outside, and nothing is adjusted
C13_Witness ==
  /\ call.op = "checkCollision"
  /\ ~(LengthSq(call.incoming) < VelocityEpsSq)
  /\ call.result.collisionDetected
  /\ \A o \in Tested : ~ContainsPoint(BoundingBox(o), call.newPosition)
  /\ call.result.position = call.newPosition

\* C14: whenever the sphere at the desired position intersects a registered
\* box, the point checkCollision measures direction, distance and overlap
\* from is the desired position clamped component-wise to the box.
C14_ClosestPointIsNearest ==
  (call.op = "checkCollision" /\ ~(LengthSq(call.incoming) < VelocityEpsSq)) =>
     \A o \in Tested :
        SphereReaches(BoundingBox(o), call.newPosition) =>
          ClosestPoint(BoundingBox(o), call.newPosition)
            = ClampPoint(call.newPosition, BoundingBox(o))

(***************************************************************************)
(* Properties of error handling (checked under FaultSpec)                  *)
(***************************************************************************)
\* position, velocity, currentSpeed, facing, jump and bump flags
motionState ==
  <<position, velocity, currentSpeed, targetRotation, currentRotation,
    isJumping, isBumping>>

\* C15: in either class, an update call in which an exception is raised
\* returns normally to the frame loop and leaves the motion state (position,
\* velocity, currentSpeed, facing, jump and bump flags) as it was before the
\* call.
C15_ExceptionKeepsState ==
  [][(UpdateStep /\ call'.outcome # "returned") =>
       /\ call'.outcome = "caught"
       /\ motionState' = motionState]_vars

(***************************************************************************)
(* Properties of the registry (checked under CollisionSpec)                *)
(***************************************************************************)
\* C16: once removeObject(o) has returned, o is not in the registry (and so
\* no later checkCollision tests it), whatever adds and removes came before,
\* also when o was added more than once.
C16_RemovedIsGone ==
  call.op = "removeObject" =>
    \A i \in 1..Len(objects) : objects[i] # call.object

(***************************************************************************)
(* Properties of the frame loop (checked under AppSpec)                    *)
(***************************************************************************)
\* C17: entries are added to the registry only while the scene is built: no
\* animation frame adds one, so after every frame the registry is as large
\* as scene construction left it.
C17_FramesAddNothing ==
  Len(objects) = Len(SceneObjects)

(***************************************************************************)
(* Properties of the jump trigger (checked under MotionSpec)               *)
(***************************************************************************)
\* a jump starts in this step: the start time is stamped anew
JumpStartedStep == jumpStartTime' # jumpStartTime

\* C18: update starts a jump only on a rising edge of the jump key: the
\* key is held in the snapshot of the call that starts the jump and was not
\* held in the snapshot of the call before, so a key held through a whole
\* jump starts no second one.
C18_JumpOnRisingEdge ==
  [][(UpdateStep /\ JumpStartedStep) =>
       /\ JumpKeyHeld(variant, call'.keys)
       /\ ~JumpKeyHeld(variant, call.keys)]_vars

(***************************************************************************)
(* Properties of the velocity assembly (checked under SteerSpec)           *)
(***************************************************************************)
\* the velocity update assembles from a snapshot at the speed and camera of
\* the last call
Assembled(keys) ==
  AssembleVelocity(keys, Forward(call.cam), Right(call.cam), currentSpeed)

\* C19: the movement keys contribute independently: with w and s both held,
\* or a and d both held, the two contributions cancel, and the velocity
\* update assembles is the one it assembles with neither of the two held.
C19_OpposingKeysCancel ==
  call.op = "update" =>
    /\ {"w", "s"} \subseteq call.keys =>
         call.incoming = Assembled(call.keys \ {"w", "s"})
    /\ {"a", "d"} \subseteq call.keys =>
         call.incoming = Assembled(call.keys \ {"a", "d"})

(***************************************************************************)
(* Properties of the bump start (checked under Spec)                       *)
(***************************************************************************)
\* this step is an update call of the collision class in which checkCollision
\* reported a collision while isBumping, as the bump check left it, was false
CollisionOutsideBumpStep ==
  /\ UpdateStep
  /\ variant = "collision"
  /\ call'.result.collisionDetected
  /\ ~call'.bumping

\* C20: in the collision class, every update call in which checkCollision
\* reports a collision while isBumping is false starts a bump in that call:
\* isBumping is set and the bump timer and the controls-disabled timer are
\* started at the call's clock readings.  That includes the call in which the
\* previous bump has just expired while the controls-disabled timer has not.
C20_CollisionStartsBump ==
  [][CollisionOutsideBumpStep =>
       /\ isBumping'
       /\ bumpStartTime' >= call'.t
       /\ controlsDisabled'
       /\ controlsDisabledStartTime' >= bumpStartTime']_vars

(***************************************************************************)
(* Properties of the collision response (checked under CollisionSpec)      *)
(***************************************************************************)
\* the vector from the point checkCollision measures from to the centre p
FromClosest(o, p) == VSub(p, ClosestPoint(BoundingBox(o), p))

\* v mirrored across the unit normal n and scaled by the bounce coefficient
Reflected(v, n) == VScale(VSub(v, VScale(n, 2 * VDot(v, n))), bounceStrength)

\* the registry holds o alone, the sphere at p cuts its box with the centre
\* outside and an overlap above 0, and v points into the surface
HitsFromOutside(o, p, v) ==
  /\ objects = <<o>>
  /\ IntersectsSphere(BoundingBox(o), p, avatarRadius)
  /\ ~ContainsPoint(BoundingBox(o), p)
  /\ Length(FromClosest(o, p)) >= 1
  /\ avatarRadius - Length(FromClosest(o, p)) > 0
  /\ VDot(v, Normalize(FromClosest(o, p))) < 0

\* C21: in bounce mode, with the centre outside an intersected box, an
\* overlap above 0 and the velocity v pointing into the surface (v . n < 0
\* for the unit direction n from the closest point to the centre), the
\* returned velocity is bounceStrength * (v - 2 (v . n) n), whose component
\* along n has the opposite sign to that of v.
C21_BounceReflects ==
  (call.op = "checkCollision" /\ collisionResponse = "bounce") =>
     \A o \in Tested :
        HitsFromOutside(o, call.newPosition, call.incoming) =>
          /\ call.result.velocity
               = Reflected(call.incoming, Normalize(FromClosest(o, call.newPosition)))
          /\ VDot(call.result.velocity, Normalize(FromClosest(o, call.newPosition))) > 0

\* the registry holds o alone and the centre p coincides with the point
\* checkCollision measures from (distance < 1e-3)
SitsOnClosest(o, p) ==
  /\ objects = <<o>>
  /\ IntersectsSphere(BoundingBox(o), p, avatarRadius)
  /\ LengthSq(FromClosest(o, p)) < 1

\* C22: when the centre coincides with the closest point, the returned
\* velocity depends on the response mode: the zero vector in stop mode, the
\* input velocity reversed and scaled by the bounce coefficient in bounce
\* mode.
C22_InsideFollowsMode ==
  (call.op = "checkCollision" /\ ~EarlyOut(call.incoming)) =>
     \A o \in Tested :
        SitsOnClosest(o, call.newPosition) =>
          /\ collisionResponse = "stop" => call.result.velocity = Zero3
          /\ collisionResponse = "bounce" =>
               call.result.velocity = VScale(call.incoming, -bounceStrength)

\* the registered shapes resolved one after the other, each one tested and
\* resolved against the position and velocity the earlier ones left
RECURSIVE ResolveInTurn(_, _, _, _)
ResolveInTurn(acc, objs, i, response) ==
  IF i > Len(objs) THEN acc
  ELSE ResolveInTurn(CollideWith(acc, objs[i], acc.position, acc.velocity, response),
                     objs, i + 1, response)

\* C23: with two or more registered shapes, checkCollision resolves them in
\* registration order, each later shape against the position and velocity
\* already adjusted by the earlier ones: the result is the one obtained by
\* feeding the output of shape i to shape i+1 as its input.
C23_LaterShapesSeeAdjusted ==
  (call.op = "checkCollision" /\ ~EarlyOut(call.incoming) /\ Len(objects) >= 2) =>
     \E chained \in {ResolveInTurn([position |-> call.newPosition,
                                    velocity |-> call.incoming,
                                    collisionDetected |-> FALSE],
                                   objects, 1, collisionResponse)} :
        /\ call.result.position = chained.position
        /\ call.result.velocity = chained.velocity

(***************************************************************************)
(* Properties of the jump (checked under JumpSpec)                         *)
(***************************************************************************)
\* C24: every jump ends: once a jump has started, the first update call made
\* at or after jumpDuration has elapsed clears isJumping and puts the height
\* back to groundY, whatever keys are held and whether or not a bump or a
\* controls-disabled period is on.
C24_JumpEnds ==
  [][(UpdateStep /\ isJumping /\ call'.t - jumpStartTime >= jumpDuration) =>
       /\ ~isJumping'
       /\ position'.y = groundY(variant)]_vars

\* a call of the collision class that ended a jump with the jump key held,
\* during a bump and the lock-out
C24_Witness ==
  /\ call.op = "update"
  /\ call.jumping
  /\ call.t - jumpStartTime >= jumpDuration
  /\ JumpKeyHeld(variant, call.keys)
  /\ isBumping
  /\ controlsDisabled
  /\ ~isJumping
  /\ position.y = groundY(variant)

(***************************************************************************)
(* Properties of the animation selection (checked under AnimSpec)          *)
(***************************************************************************)
\* this step is an update call that changed currentAnimation
AnimationSwitchedStep == UpdateStep /\ currentAnimation' # currentAnimation

\* the step before this one was the arrival of the model file, and it
\* changed currentAnimation
LoadJustSwitched == call.op = "loadModel" /\ call.object # currentAnimation

\* C25: in the model class any two consecutive changes of currentAnimation
\* are more than animationChangeCooldown apart: an update call that changes
\* it comes more than the cooldown after the change update stamped last, and
\* after the change made by the arrival of the model file.
C25_CooldownBetweenChanges ==
  [][AnimationSwitchedStep =>
       /\ call'.t - lastAnimationChange > animationChangeCooldown
       /\ LoadJustSwitched => call'.t - call.t > animationChangeCooldown]_vars

(***************************************************************************)
(* Properties of the camera (checked under CameraSpec)                     *)
(***************************************************************************)
\* this step is an updateCamera call that follows mousemove events received
\* with the pointer locked
CameraAfterMovesStep ==
  /\ call'.op = "updateCamera"
  /\ call.op = "mousemove"
  /\ isPointerLocked

\* C26: yaw and pitch accumulate every pointer-lock mouse delta: when several
\* mousemove events arrive between two updateCamera calls with the pointer
\* locked, the rotation the next updateCamera applies is that of the sum of
\* their movements, not of the last event alone.
C26_DeltasAccumulate ==
  [][CameraAfterMovesStep =>
       /\ cameraRotation'.y
            = cameraRotation.y - Mul(call.incoming.x, cameraRotationSpeed * 20)
       /\ cameraRotation'.x
            = Clamp(cameraRotation.x - Mul(call.incoming.y, cameraRotationSpeed * 20),
                    -MaxPitch, MaxPitch)]_vars

(***************************************************************************)
(* Properties of cleanup (checked under KeyboardSpec)                      *)
(***************************************************************************)
\* this step is a keyboard or blur event that follows cleanup
EventAfterCleanupStep ==
  /\ call.op = "cleanup"
  /\ call'.op \in WindowEvents

\* C30: once cleanup has returned, the keydown, keyup and blur listeners the
\* constructor registered are detached, and no later keyboard or blur event
\* changes the key map.
C30_CleanupDetaches ==
  [][(call.op = "cleanup" => listeners = {})
     /\ (EventAfterCleanupStep => keyMap' = keyMap)]_vars

(***************************************************************************)
(* Properties of jumps and bumps together (checked under Spec)             *)
(***************************************************************************)
\* this step is an update call made while a jump and a bump are both on and
\* neither has run out when the call reads the clock
JumpingAndBumpingStep ==
  /\ UpdateStep
  /\ isJumping /\ isBumping
  /\ now' - jumpStartTime < jumpDuration
  /\ now' - bumpStartTime < bumpDuration

\* C27: in the collision class a jump and a bump coexist: a bump can start
\* while a jump is in progress, the jump goes on along its vertical profile
\* and the bump velocity drives the horizontal motion.
C27_JumpAndBumpCoexist ==
  [][/\ (UpdateStep /\ BumpStartedStep /\ isJumping
           /\ now' - jumpStartTime < jumpDuration) => isJumping'
     /\ JumpingAndBumpingStep =>
          /\ isJumping' /\ isBumping'
          /\ position'.y = groundY(variant) + JumpY(now' - jumpStartTime)
          /\ velocity' = bumpVelocity
          /\ call'.newPosition = VAdd(position, bumpVelocity)
          /\ position'.x = call'.result.position.x
          /\ position'.z = call'.result.position.z]_vars

\* a bump that started while a jump was in progress is driving the avatar,
\* which is above the ground
C27_Witness ==
  /\ call.op = "update"
  /\ isJumping /\ isBumping
  /\ bumpStartTime > jumpStartTime
  /\ call.bumping
  /\ call.incoming = bumpVelocity
  /\ bumpVelocity # Zero3
  /\ position.y > groundY(variant)

\* this step started a jump
JumpBegunStep == ~isJumping /\ isJumping'

\* C28: in the collision class every update call that returns with isBumping
\* set returns with controlsDisabled set (the bump never outlasts the
\* lock-out), and no jump starts in a call in which the bump is still on.
C28_BumpWithinLockOut ==
  [][UpdateStep =>
       /\ isBumping' => controlsDisabled'
       /\ call'.bumping => ~JumpBegunStep]_vars

\* a call made on the ground with the jump key held while the bump was still
\* on has returned without starting a jump
C28_Witness ==
  /\ call.op = "update"
  /\ call.bumping
  /\ JumpKeyHeld(variant, call.keys)
  /\ ~call.jumping
  /\ ~isJumping
  /\ isBumping
  /\ controlsDisabled

\* the last update call started a bump
BumpStartedInCall ==
  /\ call.op = "update"
  /\ variant = "collision"
  /\ ~call.bumping
  /\ isBumping

\* C29: in the collision class a bump is only ever started from a velocity
\* assembled from the movement keys in that same call, never from the
\* velocity of a previous bump, so that bumpVelocity is never longer than
\* 1.5 times the longest velocity the keys can produce (sprinting along a
\* diagonal) and consecutive bumps do not escalate.
C29_BumpFromKeysOnly ==
  BumpStartedInCall =>
    /\ call.incoming = Assembled(call.keys)
    /\ 4 * LengthSq(bumpVelocity) <= 9 * 2 * sprintSpeed * sprintSpeed

=============================================================================
